---- MODULE Spec2Model ----
(***************************************************************************)
(* summary_utils.py: the SummaryEvaluator metric pipeline and the          *)
(* SummaryModel generation pipeline, as two state machines.                *)
(*                                                                         *)
(* Texts are opaque.  Reference i of a corpus is the text i (references    *)
(* are pairwise distinct), a generated summary is a text 0..MaxText, text  *)
(* 0 being the empty string "" and text g >= 1 the same string as          *)
(* reference g.  The scoring libraries are stubs: deterministic functions  *)
(* of the pair they are handed, one of which (rejecting) may refuse the    *)
(* empty string.  A mean sum/len is kept as the exact fraction             *)
(* [num |-> sum, den |-> len].                                             *)
(***************************************************************************)
EXTENDS Integers, Sequences, FiniteSets, TLC

\* ------------------------------------------------------------------ bounds
MaxLen == 2
MaxText == 1
MaxMetrics == 2
MaxDocs == 3
MaxDocLen == 2
MaxBudget == 2

\* --------------------------------------------------------------- utilities
Min(a, b) == IF a < b THEN a ELSE b

RECURSIVE SumSeq(_)
SumSeq(s) == IF s = <<>> THEN 0 ELSE Head(s) + SumSeq(Tail(s))

SeqsUpTo(S, n) == UNION {[1..k -> S] : k \in 0..n}

Range(s) == {s[i] : i \in DOMAIN s}

Perms(S) == {p \in [1..Cardinality(S) -> S] : Range(p) = S}

Frac(n, d) == [num |-> n, den |-> d]

EmptyDict == [k \in {} |-> 0]

DictSet(d, k, v) == [x \in (DOMAIN d) \cup {k} |-> IF x = k THEN v ELSE d[x]]

\* ===================================================== SummaryEvaluator ==
VARIABLES e_pc, refsArg, gensArg, metricsArg, rejecting,
          todo, results, printed, scored, e_exc

evars == <<e_pc, refsArg, gensArg, metricsArg, rejecting,
           todo, results, printed, scored, e_exc>>

\* SummaryModel: the instance's attributes, the arguments and locals of the
\* generate_summaries call in progress, what it printed, and the policy
\* invocations it made.
VARIABLES attrs, g_pc, dataset, prompt_template, gen_summarizer, gen_document,
          gen_prompt, it, summary_count, document, prompt, summary,
          generated_summaries, stdout, invoked, g_exc

gvars == <<attrs, g_pc, dataset, prompt_template, gen_summarizer, gen_document,
           gen_prompt, it, summary_count, document, prompt, summary,
           generated_summaries, stdout, invoked, g_exc>>

vars == <<evars, gvars>>

\* The names the module binds at import time do not include warnings.
WarningsBound == FALSE

rouge_metrics == <<"rouge1", "rouge2", "rougeL">>

\* The keys of all_metrics, in insertion order.
all_metrics == <<"rouge", "bleu", "bertscore", "vector_similarity">>

Known == Range(all_metrics)

Poison == 0

GenTexts == 0..MaxText

\* What a caller may pass as reference_summaries: a list, or a Dataset.
RefCorpus(n, asDataset) ==
    IF asDataset
    THEN [isDataset |-> TRUE, columns |-> [summary |-> [i \in 1..n |-> i]]]
    ELSE [isDataset |-> FALSE, items |-> [i \in 1..n |-> i]]

\* if isinstance(reference_summaries, Dataset): take its "summary" column
Summaries(ref) == IF ref.isDataset THEN ref.columns.summary ELSE ref.items

\* Variant of Zip: the last pair is left out.
ZipShort(refs, gens) ==
    [i \in 1..(Min(Len(refs), Len(gens)) - 1) |-> <<refs[i], gens[i]>>]

\* zip(reference_summaries, generated_summaries): stops at the shorter one.
Zip(refs, gens) ==
    [i \in 1..Min(Len(refs), Len(gens)) |-> <<refs[i], gens[i]>>]

\* The stubbed per-pair scorers.
PairCode(r, g) == r * (MaxText + 1) + g

StubScore(name, r, g) ==
    CASE name = "rouge1" -> IF r = g THEN 1 ELSE 0
      [] name = "rouge2" -> PairCode(r, g)
      [] name = "rougeL" -> r + g
      [] name = "bleu" -> PairCode(r, g) + 1
      [] name = "bertscore" -> 2 * PairCode(r, g)
      [] OTHER -> 3 * r + g

\* The first pair of the loop the scorer of metric refuses, 0 when none.
FirstRejected(metric, rej, zipped) ==
    LET bad == {i \in DOMAIN zipped : zipped[i][2] = Poison}
    IN IF rej = metric /\ bad # {}
       THEN CHOOSE i \in bad : \A j \in bad : i <= j
       ELSE 0

\* The pairs a scoring loop hands to its scorer before it ends or raises.
LoopPairs(metric, rej, zipped) ==
    LET bad == FirstRejected(metric, rej, zipped)
    IN IF bad = 0 THEN zipped ELSE SubSeq(zipped, 1, bad)

Raise(exc, pairs) ==
    [ok |-> FALSE, exc |-> exc, value |-> Frac(0, 0), pairs |-> pairs]

Return(value, pairs) ==
    [ok |-> TRUE, exc |-> "", value |-> value, pairs |-> pairs]

Mean(scores, n) == Frac(SumSeq(scores), n)

calculate_rouge(ref, gens, rej) ==
    LET zipped == Zip(Summaries(ref), gens)
        pairs == LoopPairs("rouge", rej, zipped)
        avg == [m \in Range(rouge_metrics) |->
                  Mean([i \in DOMAIN pairs |->
                          StubScore(m, pairs[i][1], pairs[i][2])],
                       Len(pairs))]
    IN IF FirstRejected("rouge", rej, zipped) # 0
       THEN Raise("ScoringFailure", pairs)
       ELSE IF Len(pairs) = 0
       THEN Raise("ZeroDivisionError", pairs)
       ELSE [ok |-> TRUE, exc |-> "", value |-> avg, pairs |-> pairs]

calculate_bleu(ref, gens, rej) ==
    LET zipped == Zip(Summaries(ref), gens)
        pairs == LoopPairs("bleu", rej, zipped)
        bleu_scores == [i \in DOMAIN pairs |->
                          StubScore("bleu", pairs[i][1], pairs[i][2])]
    IN IF FirstRejected("bleu", rej, zipped) # 0
       THEN Raise("ScoringFailure", pairs)
       ELSE IF Len(bleu_scores) = 0
       THEN Raise("ZeroDivisionError", pairs)
       ELSE Return(Mean(bleu_scores, Len(bleu_scores)), pairs)

\* warnings.catch_warnings() is evaluated first; bert_score.score takes the
\* two corpora whole and asserts that they have the same length.
calculate_bertscore(ref, gens, rej) ==
    LET refs == Summaries(ref)
        pairs == Zip(refs, gens)
        f1 == [i \in DOMAIN pairs |->
                 StubScore("bertscore", pairs[i][1], pairs[i][2])]
    IN IF ~WarningsBound
       THEN Raise("NameError", <<>>)
       ELSE IF Len(refs) # Len(gens)
       THEN Raise("AssertionError", <<>>)
       ELSE IF rej = "bertscore" /\ Poison \in Range(gens)
       THEN Raise("ScoringFailure", <<>>)
       ELSE Return(Mean(f1, Len(f1)), pairs)

\* Both corpora are encoded whole; the diagonal of the (possibly ragged)
\* cosine matrix has min(len) entries.  What the libraries make of an empty
\* batch is theirs to say: an error, or a degenerate mean.
calculate_vector_similarity(ref, gens, rej) ==
    LET diagonal == Zip(Summaries(ref), gens)
        cosine == [i \in DOMAIN diagonal |->
                     StubScore("cos_sim", diagonal[i][1], diagonal[i][2])]
    IN IF rej = "vector_similarity" /\ Poison \in Range(gens)
       THEN {Raise("ScoringFailure", <<>>)}
       ELSE IF Len(diagonal) = 0
       THEN {Raise("RuntimeError", <<>>), Return(Frac(0, 0), diagonal)}
       ELSE {Return(Mean(cosine, Len(cosine)), diagonal)}

\* all_metrics[metric](reference_summaries, generated_summaries): the
\* outcomes the call can have.
Calculate(metric, ref, gens, rej) ==
    CASE metric = "rouge" -> {calculate_rouge(ref, gens, rej)}
      [] metric = "bleu" -> {calculate_bleu(ref, gens, rej)}
      [] metric = "bertscore" -> {calculate_bertscore(ref, gens, rej)}
      [] OTHER -> calculate_vector_similarity(ref, gens, rej)

MetricIds == Known \cup {"meteor"}

NoMetrics == [none |-> TRUE, ids |-> <<>>]

MetricsArgs ==
    {NoMetrics}
    \cup {[none |-> FALSE, ids |-> s] : s \in SeqsUpTo(MetricIds, MaxMetrics)}
    \cup {[none |-> FALSE, ids |-> p] : p \in Perms(Known)}

Scorers == {"none", "rouge", "bleu", "vector_similarity"}

EvalInit ==
    /\ e_pc = "idle"
    /\ refsArg = RefCorpus(0, FALSE)
    /\ gensArg = <<>>
    /\ metricsArg = NoMetrics
    /\ rejecting = "none"
    /\ todo = <<>>
    /\ results = EmptyDict
    /\ printed = <<>>
    /\ scored = <<>>
    /\ e_exc = ""

\* evaluate(reference_summaries, generated_summaries, metrics): entry, up
\* to the start of the loop over metrics.
evaluate ==
    /\ UNCHANGED gvars
    /\ e_pc = "idle"
    /\ \E n \in 0..MaxLen, d \in BOOLEAN, g \in SeqsUpTo(GenTexts, MaxLen),
          m \in MetricsArgs, rej \in Scorers :
         /\ refsArg' = RefCorpus(n, d)
         /\ gensArg' = g
         /\ metricsArg' = m
         /\ rejecting' = rej
         /\ todo' = IF m.none THEN all_metrics ELSE m.ids
    /\ results' = EmptyDict
    /\ printed' = <<>>
    /\ scored' = <<>>
    /\ e_exc' = ""
    /\ e_pc' = "loop"

\* Variant of EvalKnownMetric: a failing metric is skipped and the loop goes on.
EvalKnownMetricSkipsFailure ==
    /\ UNCHANGED gvars
    /\ e_pc = "loop"
    /\ todo # <<>>
    /\ Head(todo) \in Known
    /\ \E r \in Calculate(Head(todo), refsArg, gensArg, rejecting) :
       LET metric == Head(todo)
       IN /\ scored' = Append(scored, [metric |-> metric, pairs |-> r.pairs])
          /\ results' = IF r.ok THEN DictSet(results, metric, r.value)
                        ELSE results
          /\ printed' = Append(printed,
                               [kind |-> "average", metric |-> metric])
          /\ todo' = Tail(todo)
    /\ UNCHANGED <<e_pc, e_exc, refsArg, gensArg, metricsArg, rejecting>>

\* One iteration of the loop for a metric of all_metrics.
EvalKnownMetric ==
    /\ UNCHANGED gvars
    /\ e_pc = "loop"
    /\ todo # <<>>
    /\ Head(todo) \in Known
    /\ \E r \in Calculate(Head(todo), refsArg, gensArg, rejecting) :
       LET metric == Head(todo)
       IN /\ scored' = Append(scored, [metric |-> metric, pairs |-> r.pairs])
          /\ IF r.ok
             THEN /\ results' = DictSet(results, metric, r.value)
                  /\ printed' = Append(printed,
                                       [kind |-> "average", metric |-> metric])
                  /\ todo' = Tail(todo)
                  /\ e_pc' = "loop"
                  /\ e_exc' = e_exc
             ELSE /\ e_exc' = r.exc
                  /\ e_pc' = "raised"
                  /\ UNCHANGED <<results, printed, todo>>
    /\ UNCHANGED <<refsArg, gensArg, metricsArg, rejecting>>

\* One iteration of the loop for any other identifier.
EvalUnknownMetric ==
    /\ UNCHANGED gvars
    /\ e_pc = "loop"
    /\ todo # <<>>
    /\ Head(todo) \notin Known
    /\ printed' = Append(printed, [kind |-> "unknown", metric |-> Head(todo)])
    /\ todo' = Tail(todo)
    /\ UNCHANGED <<e_pc, refsArg, gensArg, metricsArg, rejecting,
                   results, scored, e_exc>>

\* return results
EvalReturn ==
    /\ UNCHANGED gvars
    /\ e_pc = "loop"
    /\ todo = <<>>
    /\ e_pc' = "returned"
    /\ UNCHANGED <<refsArg, gensArg, metricsArg, rejecting,
                   todo, results, printed, scored, e_exc>>

\* The caller has the report, or the exception; the evaluator keeps nothing
\* of the call.
EvalCallEnds ==
    /\ UNCHANGED gvars
    /\ e_pc \in {"returned", "raised"}
    /\ e_pc' = "idle"
    /\ refsArg' = RefCorpus(0, FALSE)
    /\ gensArg' = <<>>
    /\ metricsArg' = NoMetrics
    /\ rejecting' = "none"
    /\ todo' = <<>>
    /\ results' = EmptyDict
    /\ printed' = <<>>
    /\ scored' = <<>>
    /\ e_exc' = ""

EvalNext ==
    \/ evaluate
    \/ EvalKnownMetric
    \/ EvalUnknownMetric
    \/ EvalReturn
    \/ EvalCallEnds

\* ========================================================= SummaryModel ==
\* A text is a sequence of words.  Word k of the document at position d of
\* a dataset is 10 * d + k; 1 and 2 are the literal words of the prompt
\* templates, 0 is the text "</s>" of the end-of-sequence token, and in a
\* template -1 is the field {document} and -2 a field {text} that format()
\* is given no value for.

\* Variant of TorchBound: the module imports torch.
TorchImported == TRUE

\* The names the module binds at import time do not include torch.
TorchBound == FALSE

default_max_length == 150
default_min_length == 30
default_length_penalty == 2
default_num_beams == 4

Tokenizers == {"plain", "eos"}

\* SummaryModel(model, tokenizer, max_position_embeddings=budget)
Construct(tokenizer, budget) ==
    [max_length |-> default_max_length,
     min_length |-> default_min_length,
     length_penalty |-> default_length_penalty,
     num_beams |-> default_num_beams,
     early_stopping |-> TRUE,
     max_position_embeddings |-> budget,
     model |-> "model",
     tokenizer |-> tokenizer]

DocText(d, n) == [k \in 1..n |-> 10 * d + k]

Datasets ==
    UNION {{[d \in 1..n |-> DocText(d, lens[d])] : lens \in [1..n -> 0..MaxDocLen]}
           : n \in 0..MaxDocs}

DefaultTemplate == <<1, -1>>

Templates == {DefaultTemplate, <<-1, 2>>, <<1, -2>>}

\* tokenizer.encode(text): one token per word, then the end-of-sequence
\* token if the tokenizer adds special tokens.
EosToken == <<"eos", 0>>

Encode(tokenizer, text) ==
    [i \in DOMAIN text |-> IF text[i] = 0 THEN EosToken ELSE <<"tok", text[i]>>]
    \o (IF tokenizer = "eos" THEN <<EosToken>> ELSE <<>>)

\* tokenizer.decode(ids): special tokens are not skipped.
Decode(tokenizer, ids) ==
    [i \in DOMAIN ids |-> IF ids[i] = EosToken THEN 0 ELSE ids[i][2]]

\* s[:n]
SliceTo(s, n) ==
    IF n >= 0 THEN SubSeq(s, 1, Min(n, Len(s)))
    ELSE SubSeq(s, 1, IF Len(s) + n > 0 THEN Len(s) + n ELSE 0)

\* Variant of default_document: the slice keeps max_position_embeddings
\* tokens.
default_document_keeps_budget(self, original_document) ==
    LET ids == Encode(self.tokenizer, original_document)
    IN IF Len(ids) > self.max_position_embeddings
       THEN Decode(self.tokenizer, SliceTo(ids, self.max_position_embeddings))
       ELSE original_document

\* default_document(self, original_document)
default_document(self, original_document) ==
    LET ids == Encode(self.tokenizer, original_document)
    IN IF Len(ids) > self.max_position_embeddings
       THEN Decode(self.tokenizer,
                   SliceTo(ids, self.max_position_embeddings - 1))
       ELSE original_document

\* prompt_template.format(document=document)
RECURSIVE Format(_, _)
Format(template, doc) ==
    IF template = <<>> THEN <<>>
    ELSE (IF Head(template) = -1 THEN doc ELSE <<Head(template)>>)
         \o Format(Tail(template), doc)

default_prompt(self, template, doc) ==
    IF -2 \in Range(template)
    THEN [ok |-> FALSE, exc |-> "KeyError", value |-> <<>>]
    ELSE [ok |-> TRUE, exc |-> "", value |-> Format(template, doc)]

\* pipeline("summarization", ...)(prompt, max_length=..., ...)[0]['summary_text'],
\* a stub: at most max_length words, led by a mark of the pipeline.
Pipeline(self, text) == SliceTo(<<8>> \o text, self.max_length)

\* The outcomes of default_summarizer: the value returned or the exception,
\* and the attributes of the instance afterwards.
default_summarizer(self, text) ==
    IF ~TorchBound
    THEN [ok |-> FALSE, exc |-> "NameError", value |-> <<>>, self |-> self]
    ELSE [ok |-> TRUE, exc |-> "", value |-> Pipeline(self, text),
          self |-> DictSet(self, "summarizer", "pipeline")]

\* Caller-supplied policies, as stubs: a document policy that keeps the last
\* word, a prompt policy that puts the template's literal words after the
\* document, a summarizer that marks the prompt.  Each may also fail.
custom_document(doc) == IF doc = <<>> THEN doc ELSE <<doc[Len(doc)]>>

IsLiteral(w) == w >= 0

custom_prompt(template, doc) == doc \o SelectSeq(template, IsLiteral)

custom_summarizer(text) == <<9>> \o text

Fail(exc) == [ok |-> FALSE, exc |-> exc, value |-> <<>>]

Ok(value) == [ok |-> TRUE, exc |-> "", value |-> value]

\* The outcomes of gen_document(self, document).
DocumentOutcomes(policy, self, doc) ==
    IF policy = "default" THEN {Ok(default_document(self, doc))}
    ELSE {Ok(custom_document(doc)), Fail("GenerationFailure")}

\* The outcomes of gen_prompt(self, prompt_template=..., document=...).
PromptOutcomes(policy, self, template, doc) ==
    IF policy = "default" THEN {default_prompt(self, template, doc)}
    ELSE {Ok(custom_prompt(template, doc)), Fail("GenerationFailure")}

\* The outcomes of gen_summarizer(self, prompt), each with the attributes of
\* the instance afterwards.
SummarizerOutcomes(policy, self, text) ==
    IF policy = "default" THEN {default_summarizer(self, text)}
    ELSE {[ok |-> TRUE, exc |-> "", value |-> custom_summarizer(text),
           self |-> self],
          [ok |-> FALSE, exc |-> "GenerationFailure", value |-> <<>>,
           self |-> self]}

Invocation(policy, index, template, input, r) ==
    [policy |-> policy, index |-> index, template |-> template,
     input |-> input, out |-> r.value, raised |-> ~r.ok]

Policies == {"default", "custom"}

GenInit ==
    /\ \E tokenizer \in Tokenizers, budget \in 1..MaxBudget :
          attrs = Construct(tokenizer, budget)
    /\ g_pc = "idle"
    /\ dataset = <<>>
    /\ prompt_template = DefaultTemplate
    /\ gen_summarizer = "default"
    /\ gen_document = "default"
    /\ gen_prompt = "default"
    /\ it = 0
    /\ summary_count = 0
    /\ document = <<>>
    /\ prompt = <<>>
    /\ summary = <<>>
    /\ generated_summaries = <<>>
    /\ stdout = <<>>
    /\ invoked = <<>>
    /\ g_exc = ""

\* generate_summaries(dataset, prompt_template, gen_summarizer, gen_document,
\* gen_prompt): entry, up to the start of the loop.
generate_summaries ==
    /\ UNCHANGED evars
    /\ g_pc = "idle"
    /\ dataset' \in Datasets
    /\ prompt_template' \in Templates
    /\ gen_summarizer' \in Policies
    /\ gen_document' \in Policies
    /\ gen_prompt' \in Policies
    /\ summary_count' = 0
    /\ generated_summaries' = <<>>
    /\ it' = 0
    /\ document' = <<>>
    /\ prompt' = <<>>
    /\ summary' = <<>>
    /\ stdout' = <<>>
    /\ invoked' = <<>>
    /\ g_exc' = ""
    /\ g_pc' = "for"
    /\ UNCHANGED attrs

\* for example in dataset: document = example['document']
GenNextExample ==
    /\ UNCHANGED evars
    /\ g_pc = "for"
    /\ it < Len(dataset)
    /\ it' = it + 1
    /\ document' = dataset[it + 1]
    /\ g_pc' = "gen_document"
    /\ UNCHANGED <<attrs, dataset, prompt_template, gen_summarizer,
                   gen_document, gen_prompt, summary_count, prompt, summary,
                   generated_summaries, stdout, invoked, g_exc>>

\* Variant of GenDocument: the policy's result is dropped, so the prompt is
\* built from the example's own text.
GenDocumentDropsResult ==
    /\ UNCHANGED evars
    /\ g_pc = "gen_document"
    /\ \E r \in DocumentOutcomes(gen_document, attrs, document) :
          /\ invoked' = Append(invoked,
                               Invocation("document", it - 1, <<>>, document, r))
          /\ IF r.ok
             THEN /\ g_pc' = "gen_prompt"
                  /\ UNCHANGED <<document, g_exc>>
             ELSE /\ g_exc' = r.exc
                  /\ g_pc' = "raised"
                  /\ UNCHANGED document
    /\ UNCHANGED <<attrs, dataset, prompt_template, gen_summarizer,
                   gen_document, gen_prompt, it, summary_count, prompt,
                   summary, generated_summaries, stdout>>

\* document = gen_document(self, document)
GenDocument ==
    /\ UNCHANGED evars
    /\ g_pc = "gen_document"
    /\ \E r \in DocumentOutcomes(gen_document, attrs, document) :
          /\ invoked' = Append(invoked,
                               Invocation("document", it - 1, <<>>, document, r))
          /\ IF r.ok
             THEN /\ document' = r.value
                  /\ g_pc' = "gen_prompt"
                  /\ UNCHANGED g_exc
             ELSE /\ g_exc' = r.exc
                  /\ g_pc' = "raised"
                  /\ UNCHANGED document
    /\ UNCHANGED <<attrs, dataset, prompt_template, gen_summarizer,
                   gen_document, gen_prompt, it, summary_count, prompt,
                   summary, generated_summaries, stdout>>

\* prompt = gen_prompt(self, prompt_template=prompt_template, document=document)
GenPrompt ==
    /\ UNCHANGED evars
    /\ g_pc = "gen_prompt"
    /\ \E r \in PromptOutcomes(gen_prompt, attrs, prompt_template, document) :
          /\ invoked' = Append(invoked,
                               Invocation("prompt", it - 1, prompt_template,
                                          document, r))
          /\ IF r.ok
             THEN /\ prompt' = r.value
                  /\ g_pc' = "gen_summarizer"
                  /\ UNCHANGED g_exc
             ELSE /\ g_exc' = r.exc
                  /\ g_pc' = "raised"
                  /\ UNCHANGED prompt
    /\ UNCHANGED <<attrs, dataset, prompt_template, gen_summarizer,
                   gen_document, gen_prompt, it, summary_count, document,
                   summary, generated_summaries, stdout>>

\* Variant of GenSummarizer: a document whose summarizer fails is skipped.
GenSummarizerSkipsFailure ==
    /\ UNCHANGED evars
    /\ g_pc = "gen_summarizer"
    /\ \E r \in SummarizerOutcomes(gen_summarizer, attrs, prompt) :
          /\ invoked' = Append(invoked,
                               Invocation("summarizer", it - 1, <<>>, prompt, r))
          /\ attrs' = r.self
          /\ summary' = IF r.ok THEN r.value ELSE summary
          /\ g_pc' = IF r.ok THEN "append" ELSE "for"
    /\ UNCHANGED <<dataset, prompt_template, gen_summarizer, gen_document,
                   gen_prompt, it, summary_count, document, prompt,
                   generated_summaries, stdout, g_exc>>

\* summary = gen_summarizer(self, prompt)
GenSummarizer ==
    /\ UNCHANGED evars
    /\ g_pc = "gen_summarizer"
    /\ \E r \in SummarizerOutcomes(gen_summarizer, attrs, prompt) :
          /\ invoked' = Append(invoked,
                               Invocation("summarizer", it - 1, <<>>, prompt, r))
          /\ attrs' = r.self
          /\ IF r.ok
             THEN /\ summary' = r.value
                  /\ g_pc' = "append"
                  /\ UNCHANGED g_exc
             ELSE /\ g_exc' = r.exc
                  /\ g_pc' = "raised"
                  /\ UNCHANGED summary
    /\ UNCHANGED <<dataset, prompt_template, gen_summarizer, gen_document,
                   gen_prompt, it, summary_count, document, prompt,
                   generated_summaries, stdout>>

IndexLine(n) == [line |-> "Summarized document", n |-> n, text |-> <<>>]

TextLine(t) == [line |-> "summary", n |-> 0, text |-> t]

\* Variant of GenAppend: the newest summary is put first.
GenAppendFirst ==
    /\ UNCHANGED evars
    /\ g_pc = "append"
    /\ generated_summaries' = <<summary>> \o generated_summaries
    /\ stdout' = stdout \o <<IndexLine(summary_count), TextLine(summary)>>
    /\ summary_count' = summary_count + 1
    /\ g_pc' = "for"
    /\ UNCHANGED <<attrs, dataset, prompt_template, gen_summarizer,
                   gen_document, gen_prompt, it, document, prompt, summary,
                   invoked, g_exc>>

\* generated_summaries.append(summary); the two prints; summary_count += 1
GenAppend ==
    /\ UNCHANGED evars
    /\ g_pc = "append"
    /\ generated_summaries' = Append(generated_summaries, summary)
    /\ stdout' = stdout \o <<IndexLine(summary_count), TextLine(summary)>>
    /\ summary_count' = summary_count + 1
    /\ g_pc' = "for"
    /\ UNCHANGED <<attrs, dataset, prompt_template, gen_summarizer,
                   gen_document, gen_prompt, it, document, prompt, summary,
                   invoked, g_exc>>

\* return generated_summaries
GenReturn ==
    /\ UNCHANGED evars
    /\ g_pc = "for"
    /\ it = Len(dataset)
    /\ g_pc' = "returned"
    /\ UNCHANGED <<attrs, dataset, prompt_template, gen_summarizer,
                   gen_document, gen_prompt, it, summary_count, document,
                   prompt, summary, generated_summaries, stdout, invoked,
                   g_exc>>

\* The caller has the summaries, or the exception; the instance keeps its
\* attributes.
GenCallEnds ==
    /\ UNCHANGED evars
    /\ g_pc \in {"returned", "raised"}
    /\ g_pc' = "idle"
    /\ dataset' = <<>>
    /\ prompt_template' = DefaultTemplate
    /\ gen_summarizer' = "default"
    /\ gen_document' = "default"
    /\ gen_prompt' = "default"
    /\ it' = 0
    /\ summary_count' = 0
    /\ document' = <<>>
    /\ prompt' = <<>>
    /\ summary' = <<>>
    /\ generated_summaries' = <<>>
    /\ stdout' = <<>>
    /\ invoked' = <<>>
    /\ g_exc' = ""
    /\ UNCHANGED attrs

GenNext ==
    \/ generate_summaries
    \/ GenNextExample
    \/ GenDocument
    \/ GenPrompt
    \/ GenSummarizer
    \/ GenAppend
    \/ GenReturn
    \/ GenCallEnds

\* The two pipelines share no state; each is checked with the other at rest.
Init == EvalInit /\ GenInit

InitEval == Init /\ attrs = Construct("eos", MaxBudget)

SpecEval == InitEval /\ [][EvalNext]_vars

SpecGen == Init /\ [][GenNext]_vars

\* ------------------------------------------------- claims on evaluate --
refs == Summaries(refsArg)

requested == IF metricsArg.none THEN all_metrics ELSE metricsArg.ids

\* The identifiers the loop is done with.
processed == SubSeq(requested, 1, Len(requested) - Len(todo))

IsKnown(m) == m \in Known

Aligned == Len(refs) = Len(gensArg) /\ Len(refs) >= 1

ValidInputs == Aligned /\ (rejecting = "none" \/ Poison \notin Range(gensArg))

RECURSIVE PairSum(_, _)
PairSum(name, n) ==
    IF n = 0 THEN 0
    ELSE StubScore(name, refs[n], gensArg[n]) + PairSum(name, n - 1)

AllPairs == [i \in 1..Len(refs) |-> <<refs[i], gensArg[i]>>]

\* C1: evaluate on reference and generated sequences of different lengths,
\* or on two empty ones, never returns a report and never stores an
\* aggregate, whatever metrics it is asked for.
C1_MisalignedNeverReports ==
    (e_pc # "idle" /\ ~Aligned) => (e_pc # "returned" /\ DOMAIN results = {})

\* C2: on aligned sequences of N >= 1 texts the bleu aggregate and every
\* rouge sub-metric aggregate is the sum of the N per-pair scores over N,
\* and the scoring loop scored the pairs (reference i, generated i),
\* i = 1..N, each once and in order.
C2_MeanOfAllPairs ==
    (e_pc # "idle" /\ Aligned) =>
        /\ "bleu" \in DOMAIN results =>
               results["bleu"] = Frac(PairSum("bleu", Len(refs)), Len(refs))
        /\ "rouge" \in DOMAIN results =>
               /\ DOMAIN results["rouge"] = Range(rouge_metrics)
               /\ \A m \in Range(rouge_metrics) :
                      results["rouge"][m] = Frac(PairSum(m, Len(refs)), Len(refs))
        /\ \A k \in DOMAIN scored :
               (scored[k].metric \in {"rouge", "bleu"}
                /\ scored[k].metric \in DOMAIN results)
               => scored[k].pairs = AllPairs

C2_Witness ==
    /\ Aligned
    /\ Len(refs) = 2
    /\ {"rouge", "bleu"} \subseteq DOMAIN results
    /\ results["rouge"]["rouge1"] = Frac(1, 2)
    /\ results["bleu"].num > results["bleu"].den

\* C3: on valid inputs evaluate raises nothing, and the report it returns
\* has exactly the requested identifiers of all_metrics as keys (all four
\* when metrics is omitted); every other identifier is reported once per
\* occurrence, reaches no scorer and is absent from the report.
C3_ReportCoversRequested ==
    (e_pc # "idle" /\ ValidInputs) =>
        /\ e_pc # "raised"
        /\ DOMAIN results = {m \in Range(processed) : IsKnown(m)}
        /\ printed = [i \in DOMAIN processed |->
                         [kind |-> IF IsKnown(processed[i]) THEN "average"
                                   ELSE "unknown",
                          metric |-> processed[i]]]
        /\ [i \in DOMAIN scored |-> scored[i].metric]
              = SelectSeq(processed, IsKnown)
        /\ e_pc = "returned" => processed = requested

\* C4: with deterministic scorers, evaluate with metrics omitted and
\* evaluate with the four identifiers in any order both return the same
\* report: the four keys, each with the value its calculate method gives.
C4_OrderIndependent ==
    (/\ e_pc \in {"returned", "raised"}
     /\ ValidInputs
     /\ (metricsArg.none \/ metricsArg.ids \in Perms(Known)))
    => /\ e_pc = "returned"
       /\ DOMAIN results = Known
       /\ \A m \in Known :
              \E r \in Calculate(m, refsArg, gensArg, rejecting) :
                  r.ok /\ results[m] = r.value

\* The scorer of metric refuses something of what it is handed.
Refuses(metric) ==
    /\ rejecting = metric
    /\ IF metric = "vector_similarity"
       THEN Poison \in Range(gensArg)
       ELSE \E i \in DOMAIN Zip(refs, gensArg) : gensArg[i] = Poison

\* C8: a scorer's failure inside a requested metric ends the call: nothing
\* but the end of the call follows, so no report is returned and no later
\* metric is computed; the failing step stores no aggregate, and its loop
\* stopped at the pair the scorer refused.
C8_Raised ==
    /\ (\E k \in DOMAIN scored : Refuses(scored[k].metric)) => e_pc = "raised"
    /\ e_pc = "raised" =>
        /\ todo # <<>>
        /\ [i \in DOMAIN scored |-> scored[i].metric]
              = SelectSeq(Append(processed, Head(todo)), IsKnown)
        /\ DOMAIN results \subseteq Range(processed)
        /\ e_exc = "ScoringFailure" =>
              /\ Refuses(Head(todo))
              /\ \A i \in DOMAIN scored[Len(scored)].pairs :
                     scored[Len(scored)].pairs[i][2] = Poison
                     => i = Len(scored[Len(scored)].pairs)

\* C8, with what may follow a failure: the end of the call and nothing else,
\* the raising step leaving the report as it was.
C8_FailurePropagates ==
    /\ []C8_Raised
    /\ [][e_pc' = "raised" => results' = results]_vars
    /\ [][e_pc = "raised" => e_pc' = "idle"]_vars

C8_Witness ==
    /\ Aligned
    /\ e_pc = "raised"
    /\ e_exc = "ScoringFailure"
    /\ DOMAIN results # {}
    /\ Len(todo) > 1
    /\ Len(scored[Len(scored)].pairs) < Len(AllPairs)

\* ---------------------------------------- claims on generate_summaries --
IsPrefix(s, t) == Len(s) <= Len(t) /\ SubSeq(t, 1, Len(s)) = s

\* What the call's policies make of a text when none of them fails.
ExpectedDocument(doc) ==
    IF gen_document = "default" THEN default_document(attrs, doc)
    ELSE custom_document(doc)

ExpectedPrompt(doc) ==
    IF gen_prompt = "default" THEN Format(prompt_template, doc)
    ELSE custom_prompt(prompt_template, doc)

ExpectedSummary(text) ==
    IF gen_summarizer = "default" THEN Pipeline(attrs, text)
    ELSE custom_summarizer(text)

SummaryOf(i) == ExpectedSummary(ExpectedPrompt(ExpectedDocument(dataset[i])))

\* C5: a call on N documents in which no policy fails returns N summaries,
\* the i-th made from document i, and has printed the indexes 0..N-1 in
\* order, each followed by its summary; an index is never printed before
\* the summary of that document is in the list.
C5_OneSummaryPerDocument ==
    /\ g_pc = "returned" =>
          /\ generated_summaries = [i \in 1..Len(dataset) |-> SummaryOf(i)]
          /\ stdout = [j \in 1..(2 * Len(dataset)) |->
                         IF j % 2 = 1 THEN IndexLine((j - 1) \div 2)
                         ELSE TextLine(SummaryOf(j \div 2))]
    /\ \A j \in DOMAIN stdout :
          stdout[j].line = "Summarized document" =>
             /\ stdout[j].n + 1 <= Len(generated_summaries)
             /\ generated_summaries[stdout[j].n + 1] = SummaryOf(stdout[j].n + 1)

C5_Witness ==
    /\ g_pc = "returned"
    /\ Len(dataset) = 3
    /\ gen_document = "default"
    /\ default_document(attrs, dataset[1]) = dataset[1]
    /\ default_document(attrs, dataset[2]) # dataset[2]
    /\ Len(generated_summaries) = 3

\* The default document policy's invocations of the call so far.
DefaultDocumentCalls ==
    {j \in DOMAIN invoked :
        invoked[j].policy = "document" /\ gen_document = "default"}

Budget == attrs.max_position_embeddings

TokenLength(text) == Len(Encode(attrs.tokenizer, text))

\* C6 as stated: a document of fewer tokens than the budget comes back
\* unchanged; one of more tokens than the budget comes back as the decode of
\* the first budget - 1 tokens of its encoding, has token length budget - 1
\* and is a prefix of the original; the dataset keeps the original.
C6_TruncatedLengthIsBudgetMinusOne ==
    \A j \in DefaultDocumentCalls :
       LET e == invoked[j]
           ids == Encode(attrs.tokenizer, e.input)
       IN /\ ~e.raised
          /\ dataset[e.index + 1] = e.input
          /\ Len(ids) < Budget => e.out = e.input
          /\ Len(ids) > Budget =>
                /\ e.out = Decode(attrs.tokenizer, SubSeq(ids, 1, Budget - 1))
                /\ IsPrefix(e.out, e.input)
                /\ TokenLength(e.out) = Budget - 1

\* C6 amended: as above, but the truncated document, encoded again, has
\* budget - 1 tokens and whatever special tokens the tokenizer appends to
\* every text (none, or the end-of-sequence token: budget tokens in all);
\* and a document of exactly budget tokens is unchanged too.
C6_TruncatedToBudgetMinusOneTokens ==
    \A j \in DefaultDocumentCalls :
       LET e == invoked[j]
           ids == Encode(attrs.tokenizer, e.input)
       IN /\ ~e.raised
          /\ dataset[e.index + 1] = e.input
          /\ Len(ids) <= Budget => e.out = e.input
          /\ Len(ids) > Budget =>
                /\ e.out = Decode(attrs.tokenizer, SubSeq(ids, 1, Budget - 1))
                /\ IsPrefix(e.out, e.input)
                /\ Len(e.out) = Budget - 1
                /\ TokenLength(e.out) = Budget - 1 + TokenLength(<<>>)

C6_Witness ==
    \E j \in DefaultDocumentCalls :
       /\ attrs.tokenizer = "eos"
       /\ TokenLength(invoked[j].input) > Budget
       /\ invoked[j].out # invoked[j].input
       /\ TokenLength(invoked[j].out) = Budget

\* C7: a policy's failure on document k ends the call: only the end of the
\* call follows and the summaries made so far go with it; the failing
\* invocation is the last and the only failed one, no policy was invoked
\* twice on a document or at all on a later one, and what was printed is
\* what documents 0..k-1 printed.
C7_Raised ==
    /\ (\E j \in DOMAIN invoked : invoked[j].raised) => g_pc = "raised"
    /\ g_pc = "raised" =>
          LET k == it - 1
          IN /\ invoked # <<>>
             /\ {j \in DOMAIN invoked : invoked[j].raised} = {Len(invoked)}
             /\ invoked[Len(invoked)].index = k
             /\ \A j \in DOMAIN invoked : invoked[j].index <= k
             /\ \A i, j \in DOMAIN invoked :
                   (invoked[i].policy = invoked[j].policy
                    /\ invoked[i].index = invoked[j].index) => i = j
             /\ Len(generated_summaries) = k
             /\ Len(stdout) = 2 * k
             /\ \A n \in 0..(k - 1) : stdout[2 * n + 1] = IndexLine(n)

\* C7, with what may follow a failure: the end of the call and nothing else.
C7_FailureAborts ==
    /\ []C7_Raised
    /\ [][g_pc = "raised" => (g_pc' = "idle" /\ generated_summaries' = <<>>)]_vars

C7_Witness ==
    /\ g_pc = "raised"
    /\ it = 2
    /\ Len(dataset) = 3
    /\ Len(generated_summaries) = 1
    /\ invoked[Len(invoked)].policy = "prompt"

C10_OneDocumentAtATime ==
    /\ \A j \in DOMAIN invoked :
          LET e == invoked[j]
              step == (j - 1) % 3
          IN /\ e.index = (j - 1) \div 3
             /\ step = 0 => /\ e.policy = "document"
                            /\ e.input = dataset[e.index + 1]
             /\ step = 1 => /\ e.policy = "prompt"
                            /\ e.input = invoked[j - 1].out
                            /\ e.template = prompt_template
             /\ step = 2 => /\ e.policy = "summarizer"
                            /\ e.input = invoked[j - 1].out
             /\ j > 1 => ~invoked[j - 1].raised
    /\ g_pc = "returned" => Len(invoked) = 3 * Len(dataset)

C10_Witness ==
    /\ g_pc = "returned"
    /\ Len(dataset) = 2
    /\ gen_document = "default"
    /\ gen_prompt = "default"
    /\ invoked[4].out # invoked[4].input
    /\ invoked[5].input = invoked[4].out
====
